---- MODULE Spec2Model ----
(***************************************************************************)
(* RxCacheItem<T> (projects/ngx-rxcache/src/lib/models/rxcache-item.ts):   *)
(* one cache cell holding a value in a BehaviorSubject, six lazily created *)
(* status BehaviorSubjects, a load started by refresh/reload and observed  *)
(* through this.subscription, and saves started by save.                   *)
(*                                                                         *)
(* A JavaScript value that may be undefined is a sequence: <<>> is         *)
(* undefined (falsy), <<x>> is the value x.  A field holding an object     *)
(* (a BehaviorSubject, a Subscription) is <<>> while it is unset.          *)
(* Every method is a function from the world before the call to the world  *)
(* after it, so that a method calling another one is one step.             *)
(***************************************************************************)
EXTENDS Integers, Sequences, FiniteSets, TLC

VARIABLES
    instance,      \* this.instance$ : BehaviorSubject<T>
    _loaded,       \* this._loaded$
    _loading,      \* this._loading$
    _saving,       \* this._saving$
    _saved,        \* this._saved$
    _hasError,     \* this._hasError$
    _error,        \* this._error$
    genericError,  \* this.genericError
    construct,     \* this.construct
    persist,       \* this.persist
    errorHandler,  \* this.errorHandler
    subscription,  \* this.subscription
    loads,         \* source operations started by construct() that have not responded yet
    latest,        \* the most recently started load, 0 when it has responded or none was started
    saves,         \* number of sink operations started by persist() that have not responded yet
    lastOp         \* what ran last: "update", "reset", "reload", "value$" (the
                   \* value getter), a completion callback ("loadNext",
                   \* "loadError", "saveNext", "saveError"), "dropped" for a
                   \* response that reached a closed Subscription, "finish", or
                   \* "call" for any other method (status getters aside)

vars == <<instance, _loaded, _loading, _saving, _saved, _hasError, _error,
          genericError, construct, persist, errorHandler, subscription,
          loads, latest, saves, lastOp>>

----------------------------------------------------------------------------
(* Bounds *)

MaxVal == 2        \* the values of T are 1..MaxVal
MaxInFlight == 2   \* source operations that may be awaiting a response together
MaxSaves == 2      \* sink operations that may be awaiting a response together

----------------------------------------------------------------------------
(* Values *)

undefined == <<>>
Truthy(x) == x # undefined /\ x # <<"">>
Or(a, b) == IF Truthy(a) THEN a ELSE b

Values == 1 .. MaxVal
OptValues == {undefined} \cup {<<v>> : v \in Values}
Sources == {"s1", "s2"}

\* A raw error is the set of errorHandler functions that have a text for it:
\* a handler returns its text for an error it knows and nothing otherwise.
Errors == SUBSET {"cellHandler", "globalHandler"}

Call(handler, error) ==
    IF handler[1] \in error THEN <<handler[1] \o " text">> ELSE undefined

CellHandlers == {<<"cellHandler">>}
GlobalHandlers == {<<"globalHandler">>}
GlobalGenericText == <<"globalGeneric">>

\* The process-wide globalConfig is owned outside the cell, which reads it
\* when a failure arrives: it is an input of the error callbacks.
GlobalConfigs ==
    [errorHandler : {undefined} \cup GlobalHandlers, genericError : {GlobalGenericText}]

Configs ==
    [initialValue : OptValues,
     genericError : {undefined, <<"cellGeneric">>},
     construct : {undefined} \cup {<<s>> : s \in Sources},
     persist : {undefined, <<"sink">>},
     errorHandler : {undefined} \cup CellHandlers,
     load : BOOLEAN]

----------------------------------------------------------------------------
(* BehaviorSubject *)

NewBS(v) == <<[value |-> v, isStopped |-> FALSE]>>

\* BehaviorSubject.next: ignored once the subject has completed
bsNext(bs, v) ==
    IF bs[1].isStopped THEN bs ELSE <<[bs[1] EXCEPT !.value = v]>>

bsComplete(bs) == <<[bs[1] EXCEPT !.isStopped = TRUE]>>

getValue(bs) == bs[1].value

\* private next(bs, value)
next(bs, value) == IF bs # undefined THEN bsNext(bs, value) ELSE bs

\* private complete(bs)
complete(bs) == IF bs # undefined THEN bsComplete(bs) ELSE bs

----------------------------------------------------------------------------
(* The world: the cell's fields and the operations in flight *)

W == [instance |-> instance, _loaded |-> _loaded, _loading |-> _loading,
      _saving |-> _saving, _saved |-> _saved, _hasError |-> _hasError,
      _error |-> _error, genericError |-> genericError, construct |-> construct,
      persist |-> persist, errorHandler |-> errorHandler,
      subscription |-> subscription,
      loads |-> loads, latest |-> latest, saves |-> saves]

Fits(w) == Cardinality(w.loads) <= MaxInFlight /\ w.saves <= MaxSaves

Set(w) ==
    /\ Fits(w)
    /\ instance' = w.instance
    /\ _loaded' = w._loaded
    /\ _loading' = w._loading
    /\ _saving' = w._saving
    /\ _saved' = w._saved
    /\ _hasError' = w._hasError
    /\ _error' = w._error
    /\ genericError' = w.genericError
    /\ construct' = w.construct
    /\ persist' = w.persist
    /\ errorHandler' = w.errorHandler
    /\ subscription' = w.subscription
    /\ loads' = w.loads
    /\ latest' = w.latest
    /\ saves' = w.saves

----------------------------------------------------------------------------
(* Lazy status channels *)

get_loaded(w) ==
    IF w._loaded = undefined
    THEN [w EXCEPT !._loaded = NewBS(getValue(w.instance) # undefined)]
    ELSE w

get_loading(w) ==
    IF w._loading = undefined THEN [w EXCEPT !._loading = NewBS(FALSE)] ELSE w

get_saving(w) ==
    IF w._saving = undefined THEN [w EXCEPT !._saving = NewBS(FALSE)] ELSE w

get_saved(w) ==
    IF w._saved = undefined THEN [w EXCEPT !._saved = NewBS(FALSE)] ELSE w

get_hasError(w) ==
    IF w._hasError = undefined THEN [w EXCEPT !._hasError = NewBS(FALSE)] ELSE w

get_error(w) ==
    IF w._error = undefined THEN [w EXCEPT !._error = NewBS(undefined)] ELSE w

\* this.loaded$.next(v) and its five siblings: the getter, then next
loaded_next(w, v) == [get_loaded(w) EXCEPT !._loaded = bsNext(@, v)]
loading_next(w, v) == [get_loading(w) EXCEPT !._loading = bsNext(@, v)]
saving_next(w, v) == [get_saving(w) EXCEPT !._saving = bsNext(@, v)]
saved_next(w, v) == [get_saved(w) EXCEPT !._saved = bsNext(@, v)]
hasError_next(w, v) == [get_hasError(w) EXCEPT !._hasError = bsNext(@, v)]
error_next(w, v) == [get_error(w) EXCEPT !._error = bsNext(@, v)]

----------------------------------------------------------------------------
(* Loads in flight.  A load is [id, closed]: closed is the closed flag of   *)
(* the Subscription that subscribe returned for it.                        *)

\* Subscription.unsubscribe on the Subscription of load id
closeSubscription(ls, id) ==
    {IF l.id = id THEN [l EXCEPT !.closed = TRUE] ELSE l : l \in ls}

unsubscribe(w) ==
    IF w.subscription # undefined
    THEN [w EXCEPT !.loads = closeSubscription(@, w.subscription[1]),
                   !.subscription = undefined]
    ELSE w

FreshId(ls) ==
    CHOOSE i \in 1 .. (Cardinality(ls) + 1) :
        /\ \A l \in ls : l.id # i
        /\ \A j \in 1 .. (i - 1) : \E l \in ls : l.id = j

\* this.subscription = construct().subscribe(onNext, onError)
subscribe(w) ==
    LET id == FreshId(w.loads)
    IN [w EXCEPT !.loads = @ \cup {[id |-> id, closed |-> FALSE]},
                 !.subscription = <<id>>,
                 !.latest = id]

----------------------------------------------------------------------------
(* Error chain *)

\* generateErrorMessage without its "|| this.genericError"
generateErrorMessage_noCellGeneric(w, globalConfig, error) ==
    Or(Call(w.errorHandler, error), globalConfig.genericError)

generateErrorMessage(w, globalConfig, error) ==
    Or(Or(Call(w.errorHandler, error), w.genericError), globalConfig.genericError)

\* runErrorHandler without the last "|| globalConfig.genericError"
runErrorHandler_noLastFallback(w, globalConfig, error) ==
    LET globalConfigError ==
            IF Truthy(globalConfig.errorHandler)
            THEN Call(globalConfig.errorHandler, error)
            ELSE globalConfig.genericError
        message ==
            Or(IF Truthy(w.errorHandler)
               THEN Or(Call(w.errorHandler, error), w.genericError)
               ELSE w.genericError,
               globalConfigError)
        w1 == hasError_next(error_next(w, message), TRUE)
        w2 == IF Truthy(w1.construct)
              THEN loading_next(loaded_next(w1, FALSE), FALSE)
              ELSE w1
        w3 == IF Truthy(w2.persist)
              THEN saving_next(saved_next(w2, FALSE), FALSE)
              ELSE w2
    IN w3

\* runErrorHandler without the "if (this.construct)" branch
runErrorHandler_noLoadFlags(w, globalConfig, error) ==
    LET globalConfigError ==
            IF Truthy(globalConfig.errorHandler)
            THEN Call(globalConfig.errorHandler, error)
            ELSE globalConfig.genericError
        message ==
            Or(Or(IF Truthy(w.errorHandler)
                  THEN generateErrorMessage(w, globalConfig, error)
                  ELSE w.genericError,
                  globalConfigError),
               globalConfig.genericError)
        w1 == hasError_next(error_next(w, message), TRUE)
    IN IF Truthy(w1.persist)
       THEN saving_next(saved_next(w1, FALSE), FALSE)
       ELSE w1

\* runErrorHandler without the "if (this.persist)" branch
runErrorHandler_noSaveFlags(w, globalConfig, error) ==
    LET globalConfigError ==
            IF Truthy(globalConfig.errorHandler)
            THEN Call(globalConfig.errorHandler, error)
            ELSE globalConfig.genericError
        message ==
            Or(Or(IF Truthy(w.errorHandler)
                  THEN generateErrorMessage(w, globalConfig, error)
                  ELSE w.genericError,
                  globalConfigError),
               globalConfig.genericError)
        w1 == hasError_next(error_next(w, message), TRUE)
    IN IF Truthy(w1.construct)
       THEN loading_next(loaded_next(w1, FALSE), FALSE)
       ELSE w1

runErrorHandler(w, globalConfig, error) ==
    LET globalConfigError ==
            IF Truthy(globalConfig.errorHandler)
            THEN Call(globalConfig.errorHandler, error)
            ELSE globalConfig.genericError
        message ==
            Or(Or(IF Truthy(w.errorHandler)
                  THEN generateErrorMessage(w, globalConfig, error)
                  ELSE w.genericError,
                  globalConfigError),
               globalConfig.genericError)
        w1 == hasError_next(error_next(w, message), TRUE)
        w2 == IF Truthy(w1.construct)
              THEN loading_next(loaded_next(w1, FALSE), FALSE)
              ELSE w1
        w3 == IF Truthy(w2.persist)
              THEN saving_next(saved_next(w2, FALSE), FALSE)
              ELSE w2
    IN w3

----------------------------------------------------------------------------
(* Methods *)

\* refresh without its unsubscribe
refresh_noUnsubscribe(w) ==
    IF Truthy(w.construct)
    THEN LET w1 == loading_next(w, TRUE)
             w2 == loaded_next(w1, FALSE)
             w3 == hasError_next(w2, FALSE)
             w4 == error_next(w3, undefined)
         IN subscribe(w4)
    ELSE w

refresh(w) ==
    IF Truthy(w.construct)
    THEN LET w1 == loading_next(w, TRUE)
             w2 == loaded_next(w1, FALSE)
             w3 == hasError_next(w2, FALSE)
             w4 == error_next(w3, undefined)
             w5 == unsubscribe(w4)
         IN subscribe(w5)
    ELSE w

\* the callbacks refresh and reload subscribe with
loadNext(w, item) ==
    [w EXCEPT !.instance = bsNext(@, <<item>>),
              !._loaded = bsNext(@, TRUE),
              !._loading = bsNext(@, FALSE)]

loadError(w, globalConfig, error) == runErrorHandler(w, globalConfig, error)

configure(w, config) ==
    LET hasInitialValue == config.initialValue # undefined
        hasValue == getValue(w.instance) # undefined
        w1 == IF hasInitialValue /\ ~hasValue
              THEN [w EXCEPT !.instance = bsNext(@, config.initialValue),
                             !._loaded = next(@, TRUE)]
              ELSE w
        w2 == [w1 EXCEPT !.genericError = Or(config.genericError, @),
                         !.construct = Or(config.construct, @),
                         !.persist = Or(config.persist, @),
                         !.errorHandler = Or(config.errorHandler, @)]
        w3 == IF Truthy(config.construct) THEN unsubscribe(w2) ELSE w2
    IN IF config.load THEN refresh(w3) ELSE w3

\* get value$() without the "!this.loaded$.getValue()" test
get_value_ignoresLoaded(w) ==
    IF Truthy(w.construct) THEN refresh(get_loaded(w)) ELSE w

\* get value$()
get_value(w) ==
    IF Truthy(w.construct)
    THEN LET w1 == get_loaded(w)
         IN IF ~getValue(w1._loaded) THEN refresh(w1) ELSE w1
    ELSE w

\* update without "this.next(this._loading$, false)"
update_keepsLoading(w, value) ==
    [w EXCEPT !.instance = bsNext(@, value),
              !._hasError = next(@, FALSE),
              !._error = next(@, undefined),
              !._loaded = next(@, TRUE)]

\* update without "this.next(this._error$, undefined)"
update_keepsError(w, value) ==
    [w EXCEPT !.instance = bsNext(@, value),
              !._hasError = next(@, FALSE),
              !._loaded = next(@, TRUE),
              !._loading = next(@, FALSE)]

\* update followed by "this.unsubscribe()"
update_unsubscribes(w, value) ==
    unsubscribe([w EXCEPT !.instance = bsNext(@, value),
                          !._hasError = next(@, FALSE),
                          !._error = next(@, undefined),
                          !._loaded = next(@, TRUE),
                          !._loading = next(@, FALSE)])

update(w, value) ==
    [w EXCEPT !.instance = bsNext(@, value),
              !._hasError = next(@, FALSE),
              !._error = next(@, undefined),
              !._loaded = next(@, TRUE),
              !._loading = next(@, FALSE)]

save(w) ==
    IF Truthy(w.persist)
    THEN LET w1 == saving_next(w, TRUE)
             w2 == saved_next(w1, FALSE)
             w3 == hasError_next(w2, FALSE)
             w4 == error_next(w3, undefined)
         IN [w4 EXCEPT !.saves = @ + 1]
    ELSE w

\* the callbacks save subscribes with (the caller's and the configured saved
\* callbacks run first; they are the caller's code and hold no cell state)
saveNext(w) ==
    [w EXCEPT !._saved = bsNext(@, TRUE),
              !._saving = bsNext(@, FALSE)]

saveError(w, globalConfig, error) == runErrorHandler(w, globalConfig, error)

\* reload without "this.construct = construct"
reload_keepsSource(w, src) ==
    LET w1 == loaded_next(w, FALSE)
        w2 == loading_next(w1, TRUE)
        w3 == hasError_next(w2, FALSE)
        w4 == error_next(w3, undefined)
        w5 == unsubscribe(w4)
    IN subscribe(w5)

reload(w, src) ==
    LET w1 == loaded_next(w, FALSE)
        w2 == loading_next(w1, TRUE)
        w3 == hasError_next(w2, FALSE)
        w4 == error_next(w3, undefined)
        w5 == unsubscribe(w4)
        w6 == [w5 EXCEPT !.construct = <<src>>]
    IN subscribe(w6)

\* reset without its unsubscribe
reset_noUnsubscribe(w, item) ==
    [w EXCEPT !._loaded = next(@, FALSE),
              !._loading = next(@, FALSE),
              !._hasError = next(@, FALSE),
              !._error = next(@, undefined),
              !.instance = bsNext(@, item)]

reset(w, item) ==
    LET w1 == [w EXCEPT !._loaded = next(@, FALSE),
                        !._loading = next(@, FALSE),
                        !._hasError = next(@, FALSE),
                        !._error = next(@, undefined),
                        !.instance = bsNext(@, item)]
    IN unsubscribe(w1)

finish(w) ==
    LET w1 == [w EXCEPT !.instance = bsComplete(@),
                        !._loading = complete(@),
                        !._loaded = complete(@),
                        !._error = complete(@),
                        !._hasError = complete(@)]
    IN unsubscribe(w1)

\* constructor(config)
new(config) ==
    LET w0 == [instance |-> NewBS(config.initialValue),
               _loaded |-> undefined, _loading |-> undefined,
               _saving |-> undefined, _saved |-> undefined,
               _hasError |-> undefined, _error |-> undefined,
               genericError |-> undefined, construct |-> undefined,
               persist |-> undefined, errorHandler |-> undefined,
               subscription |-> undefined,
               loads |-> {}, latest |-> 0, saves |-> 0]
    IN configure(w0, config)

----------------------------------------------------------------------------
(* What an observer reads: the value a getter returns in the current state *)

Value == getValue(instance)
Loaded == getValue(get_loaded(W)._loaded)
Loading == getValue(get_loading(W)._loading)
Saving == getValue(get_saving(W)._saving)
Saved == getValue(get_saved(W)._saved)
HasError == getValue(get_hasError(W)._hasError)
ErrorMessage == getValue(get_error(W)._error)

\* the loads whose completion would still be delivered to the cell
ActiveLoads == {l \in loads : ~l.closed}

----------------------------------------------------------------------------
(* Actions *)

Init ==
    \E config \in Configs :
        LET w == new(config)
        IN /\ instance = w.instance
           /\ _loaded = w._loaded
           /\ _loading = w._loading
           /\ _saving = w._saving
           /\ _saved = w._saved
           /\ _hasError = w._hasError
           /\ _error = w._error
           /\ genericError = w.genericError
           /\ construct = w.construct
           /\ persist = w.persist
           /\ errorHandler = w.errorHandler
           /\ subscription = w.subscription
           /\ loads = w.loads
           /\ latest = w.latest
           /\ saves = w.saves
           /\ lastOp = "call"

\* configure is called with configs that supply at most one field: the merge
\* treats the fields independently and ends with unsubscribe (construct) and
\* refresh (load), so a config supplying several fields acts as these calls
\* in a row.
Patches ==
    {c \in Configs :
        Cardinality({f \in {"initialValue", "genericError", "construct",
                            "persist", "errorHandler"} : c[f] # undefined})
            + (IF c.load THEN 1 ELSE 0) <= 1}

Configure ==
    \E config \in Patches :
        /\ Set(configure(W, config))
        /\ lastOp' = "call"

ReadValue ==
    /\ Set(get_value(W))
    /\ lastOp' = "value$"

\* a first read of a status channel; a later read returns the same subject.
\* A getter is no method of the cell's protocol: lastOp stays.
ReadLoaded ==
    /\ _loaded = undefined
    /\ Set(get_loaded(W))
    /\ UNCHANGED lastOp

ReadLoading ==
    /\ _loading = undefined
    /\ Set(get_loading(W))
    /\ UNCHANGED lastOp

ReadSaving ==
    /\ _saving = undefined
    /\ Set(get_saving(W))
    /\ UNCHANGED lastOp

ReadSaved ==
    /\ _saved = undefined
    /\ Set(get_saved(W))
    /\ UNCHANGED lastOp

ReadHasError ==
    /\ _hasError = undefined
    /\ Set(get_hasError(W))
    /\ UNCHANGED lastOp

ReadError ==
    /\ _error = undefined
    /\ Set(get_error(W))
    /\ UNCHANGED lastOp

Update ==
    \E value \in Values :
        /\ Set(update(W, <<value>>))
        /\ lastOp' = "update"

Save ==
    /\ Set(save(W))
    /\ lastOp' = "call"

Reload ==
    \E src \in Sources :
        /\ Set(reload(W, src))
        /\ lastOp' = "reload"

Reset ==
    \E item \in OptValues :
        /\ Set(reset(W, item))
        /\ lastOp' = "reset"

Unsubscribe ==
    /\ Set(unsubscribe(W))
    /\ lastOp' = "call"

Finish ==
    /\ Set(finish(W))
    /\ lastOp' = "finish"

Refresh ==
    /\ Set(refresh(W))
    /\ lastOp' = "call"

\* the loads left when load l has responded: the Subscriptions that remain
\* keep their order and are numbered 1, 2, ... again
Renumber(id, gone) == IF id > gone THEN id - 1 ELSE id

Without(ls, l) == {[k EXCEPT !.id = Renumber(@, l.id)] : k \in ls \ {l}}

\* the source operation of load l responds; a closed Subscription drops it
Respond(l) ==
    [W EXCEPT !.loads = Without(@, l),
              !.subscription = IF @ = undefined THEN @ ELSE <<Renumber(@[1], l.id)>>,
              !.latest = IF @ = l.id THEN 0 ELSE Renumber(@, l.id)]

LoadSucceeds ==
    \E l \in loads, item \in Values :
        /\ ~l.closed
        /\ Set(loadNext(Respond(l), item))
        /\ lastOp' = "loadNext"

LoadFails ==
    \E l \in loads, error \in Errors, globalConfig \in GlobalConfigs :
        /\ ~l.closed
        /\ Set(loadError(Respond(l), globalConfig, error))
        /\ lastOp' = "loadError"

LoadDropped ==
    \E l \in loads :
        /\ l.closed
        /\ Set(Respond(l))
        /\ lastOp' = "dropped"

SaveSucceeds ==
    /\ saves > 0
    /\ Set(saveNext([W EXCEPT !.saves = @ - 1]))
    /\ lastOp' = "saveNext"

SaveFails ==
    \E error \in Errors, globalConfig \in GlobalConfigs :
        /\ saves > 0
        /\ Set(saveError([W EXCEPT !.saves = @ - 1], globalConfig, error))
        /\ lastOp' = "saveError"

Next ==
    \/ Configure
    \/ ReadValue
    \/ ReadLoaded
    \/ ReadLoading
    \/ ReadSaving
    \/ ReadSaved
    \/ ReadHasError
    \/ ReadError
    \/ Update
    \/ Save
    \/ Reload
    \/ Reset
    \/ Unsubscribe
    \/ Refresh
    \/ LoadSucceeds
    \/ LoadFails
    \/ LoadDropped
    \/ SaveSucceeds
    \/ SaveFails

Spec == Init /\ [][Next]_vars

\* The cell's whole life, finish included, for a cell that leaves its error
\* texts to the global config and is not configured again once constructed.
InitFinish ==
    /\ Init
    /\ genericError = undefined
    /\ errorHandler = undefined

NextFinish ==
    \/ Finish
    \/ ReadValue
    \/ ReadLoaded
    \/ ReadLoading
    \/ ReadSaving
    \/ ReadSaved
    \/ ReadHasError
    \/ ReadError
    \/ Update
    \/ Save
    \/ Reload
    \/ Reset
    \/ Refresh
    \/ LoadSucceeds
    \/ LoadFails
    \/ LoadDropped
    \/ SaveSucceeds
    \/ SaveFails

SpecFinish == InitFinish /\ [][NextFinish]_vars

----------------------------------------------------------------------------
(* Properties.  Spec is the life of a cell up to finish; SpecFinish adds   *)
(* finish and what callers and completions do after it.  C12 and C13 are   *)
(* about finish; the other properties are about a cell that has not been   *)
(* finished.                                                               *)

\* the fields the load protocol owns, as an observer reads them
Observed == <<Value, Loaded, Loading, HasError, ErrorMessage>>

\* C1: the completion (success or failure) of a load that is not the most
\* recently started one, a newer load having been started after it, changes
\* none of value, loaded, loading, hasError, errorMessage.
C1_StaleCompletionIsNoOp ==
    [][\A l \in loads :
          (l.id # latest /\ loads' = Without(loads, l)) => Observed' = Observed]_vars

\* a superseded load's response has been dropped while the newer load is
\* still active
C1_Witness ==
    /\ lastOp = "dropped"
    /\ \E l \in ActiveLoads : l.id = latest

\* C2: after reset, the completion of a load that was in flight when reset
\* was called changes none of value, loaded, loading, hasError, errorMessage.
C2_CompletionAfterResetIsNoOp ==
    [][(lastOp = "reset" /\ \E l \in loads : loads' = Without(loads, l))
          => Observed' = Observed]_vars

\* reset has returned and the load that was the latest one has not responded
C2_Witness ==
    /\ lastOp = "reset"
    /\ \E l \in loads : l.id = latest

\* C3: once update(v) has returned, v a value of T, the cell reads
\* loaded = true, loading = false, hasError = false, and saving and saved read
\* as they did before the call, whichever channels exist.
C3_UpdatePostcondition ==
    [][lastOp' = "update" =>
          /\ Loaded'
          /\ ~Loading'
          /\ ~HasError'
          /\ Saving' = Saving
          /\ Saved' = Saved]_vars

\* update has returned on a cell whose loaded, loading and hasError channels
\* were never read
C3_Witness ==
    /\ lastOp = "update"
    /\ _loaded = undefined
    /\ _loading = undefined
    /\ _hasError = undefined

\* C4: once reset(newValue) has returned the cell reads loaded = false,
\* loading = false, hasError = false, errorMessage absent, value = newValue.
C4_ResetPostcondition ==
    [][\A item \in OptValues :
          (Set(reset(W, item)) /\ lastOp' = "reset") =>
              /\ ~Loaded'
              /\ ~Loading'
              /\ ~HasError'
              /\ ErrorMessage' = undefined
              /\ Value' = item]_vars

\* C5: after a load has failed on a cell with a source, loading = false,
\* loaded = false, hasError = true and errorMessage is a non-empty text.
C5_LoadFailurePostcondition ==
    (lastOp = "loadError" /\ Truthy(construct)) =>
        /\ ~Loading
        /\ ~Loaded
        /\ HasError
        /\ Truthy(ErrorMessage)

\* a load has failed where the cell's errorHandler had no text for the error,
\* the cell has no genericError, and the last fallback gave the message
C5_Witness ==
    /\ lastOp = "loadError"
    /\ Truthy(errorHandler)
    /\ ~Truthy(genericError)
    /\ ErrorMessage = GlobalGenericText
    /\ ~Loading
    /\ ~Loaded

\* C6: after a save has failed on a cell with a sink, saving = false,
\* saved = false and hasError = true; the failure reaches the cell in the
\* error callback, a step of its own, after save has returned.
C6_SaveFailurePostcondition ==
    (lastOp = "saveError" /\ Truthy(persist)) =>
        /\ ~Saving
        /\ ~Saved
        /\ HasError

\* a save has failed
C6_Witness ==
    /\ lastOp = "saveError"
    /\ Truthy(persist)
    /\ HasError

\* C7: loading and loaded are never both true once a method or callback has
\* returned.
C7_NotLoadingAndLoaded == ~(Loading /\ Loaded)

\* C8: hasError = true implies errorMessage is present, and a step that
\* takes hasError from true to false leaves errorMessage absent.
C8_ErrorMessageFollowsHasError ==
    [][/\ HasError => ErrorMessage # undefined
       /\ HasError' => ErrorMessage' # undefined
       /\ (HasError /\ ~HasError') => ErrorMessage' = undefined]_vars

\* a failure has set hasError
C8_Witness ==
    /\ lastOp \in {"loadError", "saveError"}
    /\ HasError
    /\ ErrorMessage # undefined

\* C9: loading = true exactly when a load is active (started, not cancelled,
\* its completion not yet delivered).
C9_LoadingIffActiveLoad == Loading <=> (ActiveLoads # {})

\* C10: saving = true exactly when a save is in flight.
C10_SavingIffSaveInFlight == Saving <=> (saves > 0)

\* C11: hasError is true only while the most recent load or save to complete
\* is a failed one: once a load or a save has completed successfully, or reset
\* has returned, hasError reads false.
C11_HasErrorOnlyAfterFailure ==
    lastOp \in {"loadNext", "saveNext", "reset"} => ~HasError

\* C12: when finish returns, the value channel and every status channel that
\* exists (loading, loaded, saving, saved, hasError, errorMessage) is
\* completed, and no load is active.
C12_FinishClosesEveryChannel ==
    [][(Set(finish(W)) /\ lastOp' = "finish") =>
          /\ instance'[1].isStopped
          /\ _loading' = undefined \/ _loading'[1].isStopped
          /\ _loaded' = undefined \/ _loaded'[1].isStopped
          /\ _saving' = undefined \/ _saving'[1].isStopped
          /\ _saved' = undefined \/ _saved'[1].isStopped
          /\ _hasError' = undefined \/ _hasError'[1].isStopped
          /\ _error' = undefined \/ _error'[1].isStopped
          /\ ActiveLoads' = {}]_vars

\* C13: after finish, a call of a mutator (update, reset, reload, and, under
\* the name "call", refresh and save) changes no state of the cell: no field,
\* no channel, no operation in flight.
C13_MutatorAfterFinishChangesNothing ==
    [][(instance[1].isStopped /\ lastOp' \in {"call", "update", "reset", "reload"})
          => UNCHANGED <<instance, _loaded, _loading, _saving, _saved, _hasError,
                         _error, genericError, construct, persist, errorHandler,
                         subscription, loads, saves>>]_vars

Reads(w) ==
    <<getValue(get_loaded(w)._loaded), getValue(get_loading(w)._loading),
      getValue(get_saving(w)._saving), getValue(get_saved(w)._saved),
      getValue(get_hasError(w)._hasError), getValue(get_error(w)._error)>>

\* the cell with its six status channels created, as a read of each makes it
Eager(w) ==
    get_error(get_hasError(get_saved(get_saving(get_loading(get_loaded(w))))))

\* C15: the cell with lazily created status channels reads like a cell whose
\* six channels exist: whichever channels have been read before, a method that
\* updates channels through the private next (reset, update, configure) leaves
\* the same reads as it leaves on the cell with all six channels created.
C15_LazyReadsAsEager ==
    /\ \A item \in OptValues :
          Reads(reset(W, item)) = Reads(reset(Eager(W), item))
    /\ \A value \in Values :
          Reads(update(W, <<value>>)) = Reads(update(Eager(W), <<value>>))
    /\ \A config \in Patches :
          Reads(configure(W, config)) = Reads(configure(Eager(W), config))

\* C16: in every state of the cell and for every raw error and global config,
\* the errorMessage the error chain of a failed load or save sets is the
\* cell's own message if that is non-empty, else the global fallback message,
\* else the global generic text.  The cell's own message is, with an
\* errorHandler, the handler's text for the error, else the cell's
\* genericError, else the global generic text, and without an errorHandler the
\* cell's genericError; the global fallback message is the global handler's
\* text for the error if a global handler exists and the global generic text
\* otherwise.
C16_ErrorMessageChain ==
    \A error \in Errors, globalConfig \in GlobalConfigs :
        LET handled == Call(errorHandler, error)
            own == IF Truthy(errorHandler)
                   THEN IF Truthy(handled) THEN handled
                        ELSE IF Truthy(genericError) THEN genericError
                        ELSE globalConfig.genericError
                   ELSE genericError
            fallback == IF Truthy(globalConfig.errorHandler)
                        THEN Call(globalConfig.errorHandler, error)
                        ELSE globalConfig.genericError
            message == IF Truthy(own) THEN own
                       ELSE IF Truthy(fallback) THEN fallback
                       ELSE globalConfig.genericError
        IN /\ getValue(loadError(W, globalConfig, error)._error) = message
           /\ getValue(saveError(W, globalConfig, error)._error) = message

\* a failure where the cell's errorHandler had no text for the error and the
\* cell's genericError became the message
C16_Witness ==
    /\ lastOp \in {"loadError", "saveError"}
    /\ Truthy(errorHandler)
    /\ Truthy(genericError)
    /\ ErrorMessage = genericError

\* C17: after a failure of a load or of a save, whichever of the two failed, a
\* cell with a source reads loaded = false and loading = false and a cell
\* with a sink reads saved = false and saving = false.
C17_FailureResetsByConfiguration ==
    lastOp \in {"loadError", "saveError"} =>
        /\ Truthy(construct) => (~Loaded /\ ~Loading)
        /\ Truthy(persist) => (~Saved /\ ~Saving)

\* a save has failed on a cell that has a source and holds a value, no load in
\* flight: the cell reads loaded = false
C17_Witness ==
    /\ lastOp = "saveError"
    /\ Truthy(construct)
    /\ Value # undefined
    /\ loads = {}
    /\ ~Loaded

\* C18: loading = true is always followed by loading = false once every
\* started source operation has responded and callers have stopped; so in a
\* state where no source or sink operation awaits its response, where only a
\* caller could change the cell, loading reads false.
C18_QuiescentNotLoading ==
    (loads = {} /\ saves = 0) => ~Loading

\* C19: a read of the value starts a load exactly when the cell has a source
\* and reads loaded = false: the source is invoked once more, every load that
\* was in flight is cancelled, and the new load is the only active one.  Any
\* other read of the value changes nothing the cell reads, none of its
\* settings and no operation in flight.
C19_ReadTriggersLoad ==
    [][(lastOp' = "value$" /\ Set(get_value(W))) =>
          IF Truthy(construct) /\ ~Loaded
          THEN /\ Cardinality(loads') = Cardinality(loads) + 1
               /\ \A l \in loads : [l EXCEPT !.closed = TRUE] \in loads'
               /\ \E l \in loads' \ loads : ActiveLoads' = {l} /\ l.id = latest'
               /\ Loading'
               /\ ~Loaded'
          ELSE /\ Value' = Value
               /\ Reads(W') = Reads(W)
               /\ UNCHANGED <<genericError, construct, persist, errorHandler,
                              subscription, loads, latest, saves>>]_vars

\* the value was read while a load was in flight on a cell that was not
\* loaded: that load is cancelled and the newly started one is active
C19_Witness ==
    /\ lastOp = "value$"
    /\ ~Loaded
    /\ \E l \in loads : l.closed
    /\ \E l \in ActiveLoads : l.id = latest

\* C20: update leaves the loads in flight and the cell's Subscription as they
\* are; when the load that was active during update then succeeds with an item,
\* the item replaces the updated value and loaded = true, and when it fails,
\* hasError = true and loaded = false.
C20_UpdateKeepsLoad ==
    [][/\ lastOp' = "update" =>
              /\ loads' = loads
              /\ subscription' = subscription
       /\ (lastOp = "update" /\ lastOp' = "loadNext") =>
              \A l \in ActiveLoads, item \in Values :
                  Set(loadNext(Respond(l), item)) =>
                      (Value' = <<item>> /\ Loaded')
       /\ (lastOp = "update" /\ lastOp' = "loadError") =>
              (HasError' /\ ~Loaded')]_vars

\* update has returned while the most recently started load is still active
C20_Witness ==
    /\ lastOp = "update"
    /\ \E l \in ActiveLoads : l.id = latest
    /\ Value # undefined
    /\ Loaded

====
